---- MODULE Spec2Model ----
(***************************************************************************)
(* Command lifecycle, connection loop, telemetry ingestion and automation  *)
(* rules of the mushroom-farm backend (flask_backend).                     *)
(*                                                                         *)
(* MQTTService.send_command runs on a request thread; the broker client's  *)
(* callbacks (_on_connect, _on_disconnect, _on_message) run on the client  *)
(* network thread.  Both write the shared commands table, each write being *)
(* its own committed transaction, so the steps of send_command interleave  *)
(* with whole callbacks.  The store is taken to commit every transaction   *)
(* that satisfies the schema; an insert that breaks a foreign key or a     *)
(* NOT NULL column raises and is rolled back.                              *)
(***************************************************************************)
EXTENDS Integers, Sequences, FiniteSets, TLC

\* ---------------------------------------------------------------- bounds
MaxCmds == 1        \* Command rows created by request threads in one behaviour
MaxAttempts == 8    \* largest value reconnect_attempts reaches
MaxReadings == 2    \* SensorData rows created in one behaviour
MaxInbox == 2       \* messages received and not yet passed to _on_message

\* ------------------------------------------------------------ input sets
Absent == "<absent>"                  \* a key the JSON payload lacks / None
NoCommandId == 0                      \* payload without 'command_id'
UtcNow == "utcnow"                    \* the value datetime.utcnow() returns

Registered == {"d1"}                  \* rows of the devices table
DeviceIds == Registered \cup {"dX"}   \* dX: an ID with no Device row
Threads == {"t1"}                     \* request threads calling send_command
CommandIds == 1 .. (MaxCmds + 1)      \* MaxCmds + 1 is never a stored command
Issuers == {"u1"}                     \* g.current_user.user_id
CommandNames == {"turn_on_fan"}
StatusValues == {"acked"}             \* payload['status'] as the simulator sends it
AckStatusValues == {"failed", "pending"}   \* payload['ack_status']
FirmwareValues == {"1.1"}             \* payload['firmware_version']

RoomOf(d) == "r1"                     \* device.room_id
FarmOf(d) == "f1"                     \* device.room.farm_id

\* JSON bodies of inbound status messages; 'ack_status' and
\* 'firmware_version' are only varied where the handler reads them.
StatusPayloads ==
    { p \in [status : StatusValues \cup {Absent},
             command_id : {NoCommandId} \cup CommandIds,
             ack_status : AckStatusValues \cup {Absent},
             firmware_version : FirmwareValues \cup {Absent}] :
        /\ (p.ack_status # Absent => p.command_id # NoCommandId)
        /\ (p.firmware_version # Absent => p.command_id = NoCommandId) }

\* farm/{farm_id}/room/{room_id}/device/{device_id}/{kind}, split at '/'
Topic(f, r, d, kind) == <<"farm", f, "room", r, "device", d, kind>>
StatusTopics == { Topic("f1", "r1", d, "status") : d \in DeviceIds }

\* ------------------------------------------------- telemetry and rules
Rooms == {"r1", "r2"}                 \* rows of the rooms table
Farms == {"f1"}                       \* rows of the farms table

\* the Float columns of SensorData; values are in hundredths of the unit
SensorColumns == {"temperature_c", "humidity_pct", "co2_ppm", "light_lux",
                  "substrate_moisture", "battery_v"}

IsoTimestamps == {"T1"}               \* strings datetime.fromisoformat accepts
BadJson == [bad_json |-> TRUE]        \* a body json.loads rejects

\* rows of the automation_rules table, in the order the query returns them;
\* action_object: json.loads(action_command) is a JSON object that has a
\* 'command' entry (rule 5: valid JSON without one)
RuleTable ==
    << [rule_id |-> 1, room_id |-> "r1", name |-> "cool", parameter |-> "temperature",
        comparator |-> ">", threshold |-> 2800, action_device |-> "d1",
        action_object |-> TRUE, command |-> "fan on", enabled |-> TRUE],
       [rule_id |-> 2, room_id |-> "r2", name |-> "cool", parameter |-> "temperature",
        comparator |-> ">", threshold |-> 2800, action_device |-> "d1",
        action_object |-> TRUE, command |-> "fan on", enabled |-> TRUE],
       [rule_id |-> 3, room_id |-> "r2", name |-> "humidify", parameter |-> "humidity",
        comparator |-> "<", threshold |-> 8000, action_device |-> "d1",
        action_object |-> TRUE, command |-> "humidifier on", enabled |-> TRUE],
       [rule_id |-> 4, room_id |-> "r2", name |-> "vent", parameter |-> "temperature",
        comparator |-> ">=", threshold |-> 3000, action_device |-> "d1",
        action_object |-> TRUE, command |-> "vent on", enabled |-> FALSE],
       [rule_id |-> 5, room_id |-> "r2", name |-> "scalar", parameter |-> "temperature",
        comparator |-> "==", threshold |-> 3000, action_device |-> "d1",
        action_object |-> FALSE, command |-> Absent, enabled |-> TRUE] >>

\* the status bodies the simulator sends: {command_id, status: 'acked'}
SimulatorAcks ==
    { p \in StatusPayloads :
        p.status = "acked" /\ p.ack_status = Absent /\ p.firmware_version = Absent }

Msg(topic, payload) == [topic |-> topic, payload |-> payload]

\* messages the two subscriptions farm/+/room/+/device/+/{telemetry,status}
\* deliver: readings of the registered device in both rooms, ...
AcceptedTelemetry ==
    { Msg(Topic("f1", "r1", "d1", "telemetry"), [temperature_c |-> 3000]),
      Msg(Topic("f1", "r1", "d1", "telemetry"), [temperature_c |-> 2700]),
      Msg(Topic("f1", "r2", "d1", "telemetry"),
          [temperature_c |-> 3000, humidity_pct |-> 7000, timestamp |-> "T1"]),
      Msg(Topic("f1", "r2", "d1", "telemetry"), [humidity_pct |-> 7000]) }

\* ... telemetry that is dropped: empty room segment, farm without a row,
\* unknown device, unparseable timestamp, body that is not JSON ...
DroppedTelemetry ==
    { Msg(Topic("f1", "", "d1", "telemetry"), [temperature_c |-> 3000]),
      Msg(Topic("fX", "r1", "d1", "telemetry"), [temperature_c |-> 3000]),
      Msg(Topic("f1", "r1", "dX", "telemetry"), [temperature_c |-> 3000]),
      Msg(Topic("f1", "r1", "d1", "telemetry"),
          [temperature_c |-> 3000, timestamp |-> "yesterday"]),
      Msg(Topic("f1", "r1", "d1", "telemetry"), BadJson) }

\* ... and acknowledgements, also on a topic with an empty room segment and
\* from a device without a Device row
StatusMessages ==
    { Msg(Topic("f1", r, "d1", "status"), p) : r \in {"r1", ""}, p \in SimulatorAcks }
    \cup { Msg(Topic("f1", "r1", "dX", "status"), p) :
             p \in { q \in SimulatorAcks : q.command_id = 1 } }

\* ------------------------------------------------------------ simulator
SimOwned == {"d1"}                    \* devices of the simulator's farms
TurnOnCommands == {"turn_on_fan"}     \* commands with 'turn_on' in them
TurnOffCommands == {"turn_off_fan"}   \* commands with 'turn_off' in them

VARIABLES
    connected,      \* MQTTService.connected
    reconnect_attempts, \* MQTTService.reconnect_attempts
    commands,       \* commands table: sequence of Command rows, command_id = index
    devices,        \* devices table: [Registered -> Device row]
    outbox,         \* messages client.publish accepted, in order
    emitted,        \* socketio.emit calls made by the latest step, in order
    pc,             \* position of each request thread inside send_command
    call,           \* send_command's locals per thread
    loop_pc,        \* position of the connection thread inside _connect_loop
    delay,          \* _connect_loop's local `delay`, 0 before the first backoff
    disconnecting,  \* the client was told to disconnect and has not connected since
    disconnect_called,  \* disconnect() has taken its `if` branch at some time
    readings,       \* sensor_data table: sequence of SensorData rows
    notifications,  \* notifications table: sequence of Notification rows
    inbound,        \* the message the latest step passed to _on_message, if any
    inbox,          \* messages the broker delivered that _on_message has not seen
    sim_devices,    \* the simulator's DeviceSimulator objects: status, last_command
    sim_next,       \* index in outbox of the next command the simulator receives
    sim_last        \* the message the simulator's command_callback handled last

connVars == <<loop_pc, delay, disconnecting, disconnect_called>>
telVars == <<readings, notifications>>
simVars == <<sim_devices, sim_next, sim_last>>

vars == <<connected, reconnect_attempts, commands, devices, outbox, emitted, pc, call,
          connVars, telVars, simVars, inbound, inbox>>

MQTT_ERR_SUCCESS == "MQTT_ERR_SUCCESS"
MQTT_ERR_NO_CONN == "MQTT_ERR_NO_CONN"
NotConnected == "not connected"       \* the else branch of `if self.connected`
PublishResults == {MQTT_ERR_SUCCESS, MQTT_ERR_NO_CONN}   \* result.rc

NoMsg == [topic |-> <<>>]               \* no message was handled by the step

NoCall == [device_id |-> Absent, command |-> Absent, issued_by |-> Absent,
           command_id |-> NoCommandId, rc |-> Absent, result |-> FALSE]

\* MQTTService.__init__ and the tables as registration leaves them
Init ==
    /\ connected = FALSE
    /\ reconnect_attempts = 0
    /\ commands = <<>>
    /\ devices = [d \in Registered |->
                    [status |-> "offline", last_seen |-> Absent, firmware_version |-> Absent]]
    /\ outbox = <<>>
    /\ emitted = <<>>
    /\ pc = [t \in Threads |-> "idle"]
    /\ call = [t \in Threads |-> NoCall]
    /\ loop_pc = "check"
    /\ delay = 0
    /\ disconnecting = FALSE
    /\ disconnect_called = FALSE
    /\ readings = <<>>
    /\ notifications = <<>>
    /\ inbound = NoMsg
    /\ inbox = <<>>
    /\ sim_devices = [d \in SimOwned |-> [status |-> "online", last_command |-> Absent]]
    /\ sim_next = 1
    /\ sim_last = NoMsg

\* ------------------------------------------------------------ connection
\* _on_connect: CONNACK for a connect attempt made while not connected
OnConnect(rc) ==
    /\ ~connected
    /\ IF rc = 0
         THEN /\ connected' = TRUE
              /\ reconnect_attempts' = 0
              /\ emitted' = <<[event |-> "mqtt_status", connected |-> TRUE]>>
         ELSE /\ connected' = FALSE
              /\ emitted' = <<>>
              /\ UNCHANGED reconnect_attempts
    /\ UNCHANGED <<commands, devices, outbox, pc, call>>
    /\ inbound' = NoMsg
    /\ UNCHANGED <<connVars, telVars, simVars, inbox>>

\* _on_disconnect: the broker session ended
OnDisconnect ==
    /\ connected
    /\ connected' = FALSE
    /\ emitted' = <<[event |-> "mqtt_status", connected |-> FALSE]>>
    /\ UNCHANGED <<reconnect_attempts, commands, devices, outbox, pc, call>>
    /\ inbound' = NoMsg
    /\ UNCHANGED <<connVars, telVars, simVars, inbox>>

\* ---------------------------------------------------------- send_command
\* the Command row send_command inserts
NewCommand(d, cmd, u) ==
    [device_id |-> d, room_id |-> RoomOf(d), farm_id |-> FarmOf(d),
     command |-> cmd, issued_by |-> u, status |-> "pending"]

\* SendCommandStart without the `if not device: return False` guard
SendCommandStart_NoLookup(t, d, cmd, u) ==
    /\ pc[t] = "idle"
    /\ Len(commands) < MaxCmds
    /\ commands' = Append(commands, NewCommand(d, cmd, u))
    /\ pc' = [pc EXCEPT ![t] = "created"]
    /\ call' = [call EXCEPT ![t] = [NoCall EXCEPT !.device_id = d,
                           !.command = cmd, !.issued_by = u,
                           !.command_id = Len(commands) + 1]]
    /\ emitted' = <<>>
    /\ UNCHANGED <<connected, reconnect_attempts, devices, outbox>>
    /\ inbound' = NoMsg
    /\ UNCHANGED <<connVars, telVars, simVars, inbox>>

\* device lookup and insert of the pending row (first commit)
SendCommandStart(t, d, cmd, u) ==
    /\ pc[t] = "idle"
    /\ IF d \notin Registered
         THEN /\ pc' = [pc EXCEPT ![t] = "returned"]
              /\ call' = [call EXCEPT ![t] = [NoCall EXCEPT !.device_id = d,
                                     !.command = cmd, !.issued_by = u, !.result = FALSE]]
              /\ UNCHANGED commands
         ELSE /\ Len(commands) < MaxCmds
              /\ commands' = Append(commands, NewCommand(d, cmd, u))
              /\ pc' = [pc EXCEPT ![t] = "created"]
              /\ call' = [call EXCEPT ![t] = [NoCall EXCEPT !.device_id = d,
                                     !.command = cmd, !.issued_by = u,
                                     !.command_id = Len(commands) + 1]]
    /\ emitted' = <<>>
    /\ UNCHANGED <<connected, reconnect_attempts, devices, outbox>>
    /\ inbound' = NoMsg
    /\ UNCHANGED <<connVars, telVars, simVars, inbox>>

\* the message send_command publishes
CommandMessage(c) ==
    [topic |-> Topic(FarmOf(c.device_id), RoomOf(c.device_id), c.device_id, "command"),
     payload |-> [command_id |-> c.command_id, command |-> c.command]]

\* SendCommandPublish without the `if self.connected` test
SendCommandPublish_IgnoreConnected(t) ==
    /\ pc[t] = "created"
    /\ \E r \in PublishResults :
         /\ call' = [call EXCEPT ![t].rc = r]
         /\ outbox' = IF r = MQTT_ERR_SUCCESS
                        THEN Append(outbox, CommandMessage(call[t]))
                        ELSE outbox
    /\ pc' = [pc EXCEPT ![t] = "published"]
    /\ emitted' = <<>>
    /\ UNCHANGED <<connected, reconnect_attempts, commands, devices>>
    /\ inbound' = NoMsg
    /\ UNCHANGED <<connVars, telVars, simVars, inbox>>

\* `if self.connected: result = self.client.publish(...)`
SendCommandPublish(t) ==
    /\ pc[t] = "created"
    /\ IF connected
         THEN \E r \in PublishResults :
                /\ call' = [call EXCEPT ![t].rc = r]
                /\ outbox' = IF r = MQTT_ERR_SUCCESS
                               THEN Append(outbox, CommandMessage(call[t]))
                               ELSE outbox
         ELSE /\ call' = [call EXCEPT ![t].rc = NotConnected]
              /\ UNCHANGED outbox
    /\ pc' = [pc EXCEPT ![t] = "published"]
    /\ emitted' = <<>>
    /\ UNCHANGED <<connected, reconnect_attempts, commands, devices>>
    /\ inbound' = NoMsg
    /\ UNCHANGED <<connVars, telVars, simVars, inbox>>

\* StatusForOutcome with the failure branches also writing 'sent'
StatusForOutcome_AlwaysSent(rc) == "sent"

\* the status send_command writes for a publish outcome
StatusForOutcome(rc) == IF rc = MQTT_ERR_SUCCESS THEN "sent" ELSE "failed"

\* write of the outcome status (second commit) and return
SendCommandFinish(t) ==
    /\ pc[t] = "published"
    /\ commands' = [commands EXCEPT ![call[t].command_id].status = StatusForOutcome(call[t].rc)]
    /\ call' = [call EXCEPT ![t].result = (call[t].rc = MQTT_ERR_SUCCESS)]
    /\ pc' = [pc EXCEPT ![t] = "returned"]
    /\ emitted' = <<>>
    /\ UNCHANGED <<connected, reconnect_attempts, devices, outbox>>
    /\ inbound' = NoMsg
    /\ UNCHANGED <<connVars, telVars, simVars, inbox>>

\* the caller takes the result; the thread is free for the next request
SendCommandReturn(t) ==
    /\ pc[t] = "returned"
    /\ pc' = [pc EXCEPT ![t] = "idle"]
    /\ call' = [call EXCEPT ![t] = NoCall]
    /\ emitted' = <<>>
    /\ UNCHANGED <<connected, reconnect_attempts, commands, devices, outbox>>
    /\ inbound' = NoMsg
    /\ UNCHANGED <<connVars, telVars, simVars, inbox>>

\* ------------------------------------------------------- inbound messages
\* Device row after a status message
DeviceAfterStatus(dev, payload) ==
    [status |-> IF payload.status = Absent THEN "online" ELSE payload.status,
     last_seen |-> UtcNow,
     firmware_version |-> IF payload.firmware_version # Absent
                            THEN payload.firmware_version
                            ELSE dev.firmware_version]

\* payload.get('ack_status', 'acked')
AckStatus(payload) ==
    IF payload.ack_status = Absent THEN "acked" ELSE payload.ack_status

\* CommandFound taking any command_id in the payload as found
CommandFound_AnyId(cmds, payload) ==
    payload.command_id # NoCommandId

\* Command.query.filter_by(command_id=...).first() finds a row
CommandFound(cmds, payload) ==
    /\ payload.command_id # NoCommandId
    /\ payload.command_id \in DOMAIN cmds

\* commands table after the acknowledgment part of _handle_status
CommandsAfterStatus(cmds, payload) ==
    IF CommandFound(cmds, payload)
      THEN [cmds EXCEPT ![payload.command_id].status = AckStatus(payload)]
      ELSE cmds

\* the socketio.emit calls of _handle_status
StatusEvents(cmds, farm_id, room_id, device_id, payload) ==
    (IF CommandFound(cmds, payload)
       THEN <<[event |-> "command_status", command_id |-> payload.command_id,
               status |-> AckStatus(payload)]>>
       ELSE <<>>)
    \o <<[event |-> "device_status", farm_id |-> farm_id, room_id |-> room_id,
          device_id |-> device_id, status |-> payload]>>

HandleStatus(farm_id, room_id, device_id, payload) ==
    /\ devices' = IF device_id \in Registered
                    THEN [devices EXCEPT ![device_id] = DeviceAfterStatus(@, payload)]
                    ELSE devices
    /\ commands' = CommandsAfterStatus(commands, payload)
    /\ emitted' = StatusEvents(commands, farm_id, room_id, device_id, payload)

\* --------------------------------------------------------------- rules
\* the SensorData column _check_automation_rules reads for rule.parameter
ColumnOf(parameter) ==
    CASE parameter = "temperature" -> "temperature_c"
      [] parameter = "humidity" -> "humidity_pct"
      [] parameter = "co2" -> "co2_ppm"
      [] parameter = "light" -> "light_lux"
      [] parameter = "substrate_moisture" -> "substrate_moisture"
      [] OTHER -> Absent

Abs(x) == IF x < 0 THEN -x ELSE x

\* ConditionMet with the '>' branch testing '<'
ConditionMet_GreaterAsLess(comparator, sensor_value, threshold) ==
    CASE comparator = "<" -> sensor_value < threshold
      [] comparator = ">" -> sensor_value < threshold
      [] comparator = "<=" -> sensor_value <= threshold
      [] comparator = ">=" -> sensor_value >= threshold
      [] comparator = "==" -> Abs(sensor_value - threshold) < 1
      [] OTHER -> FALSE

\* condition_met; 0.01 is 1 in hundredths
ConditionMet(comparator, sensor_value, threshold) ==
    CASE comparator = "<" -> sensor_value < threshold
      [] comparator = ">" -> sensor_value > threshold
      [] comparator = "<=" -> sensor_value <= threshold
      [] comparator = ">=" -> sensor_value >= threshold
      [] comparator = "==" -> Abs(sensor_value - threshold) < 1
      [] OTHER -> FALSE

\* RuleFires for a query that does not filter on enabled
RuleFires_IgnoreEnabled(rule, room_id, row) ==
    /\ rule.room_id = room_id
    /\ ColumnOf(rule.parameter) \in DOMAIN row.values
    /\ ConditionMet(rule.comparator, row.values[ColumnOf(rule.parameter)], rule.threshold)

\* the rule reaches _execute_automation_action for this row
RuleFires(rule, room_id, row) ==
    /\ rule.enabled
    /\ rule.room_id = room_id
    /\ ColumnOf(rule.parameter) \in DOMAIN row.values
    /\ ConditionMet(rule.comparator, row.values[ColumnOf(rule.parameter)], rule.threshold)

\* the rules whose action is executed for the row, in query order
FiredRules(room_id, row) ==
    SelectSeq(RuleTable, LAMBDA rule : RuleFires(rule, room_id, row))

\* the fired rules for which send_command inserts a Command row: the action
\* decodes to an object naming a command (else .get raises or the NOT NULL
\* column rejects the row) and the action device has a Device row
DispatchedRules(room_id, row) ==
    SelectSeq(FiredRules(room_id, row),
              LAMBDA rule : rule.action_object /\ rule.action_device \in Registered)

\* AutomationCommand recording a user as the issuer
AutomationCommand_IssuedByUser(rule, rc) ==
    [NewCommand(rule.action_device, rule.command, "u1")
        EXCEPT !.status = StatusForOutcome(rc)]

\* send_command called inline by _execute_automation_action, start to return
AutomationCommand(rule, rc) ==
    [NewCommand(rule.action_device, rule.command, Absent)
        EXCEPT !.status = StatusForOutcome(rc)]

\* the Notification _execute_automation_action adds when send_command succeeded
AutomationNotification(rule) ==
    [room_id |-> rule.room_id, level |-> "info", rule |-> rule.name]

\* indices of the dispatched rules whose publish succeeded
Succeeded(rcs) == { i \in DOMAIN rcs : rcs[i] = MQTT_ERR_SUCCESS }

RECURSIVE SeqOfSet(_)
SeqOfSet(S) ==
    IF S = {} THEN <<>>
    ELSE LET m == CHOOSE x \in S : \A y \in S : x <= y
         IN  <<m>> \o SeqOfSet(S \ {m})

\* _check_automation_rules: one send_command per dispatched rule, rcs[i] being
\* the outcome of the i-th publish
CheckAutomationRules(cmds, room_id, row, rcs) ==
    LET rules == DispatchedRules(room_id, row)
        ok == SeqOfSet(Succeeded(rcs))
    IN  /\ commands' = cmds \o [i \in DOMAIN rules |-> AutomationCommand(rules[i], rcs[i])]
        /\ outbox' = outbox \o
              [k \in DOMAIN ok |->
                 CommandMessage([device_id |-> rules[ok[k]].action_device,
                                 command_id |-> Len(cmds) + ok[k],
                                 command |-> rules[ok[k]].command])]
        /\ notifications' = notifications \o
              [k \in DOMAIN ok |-> AutomationNotification(rules[ok[k]])]

\* ------------------------------------------------------------ telemetry
\* the SensorData row _handle_telemetry builds
SensorRow(farm_id, room_id, device_id, payload) ==
    [device_id |-> device_id, room_id |-> room_id, farm_id |-> farm_id,
     values |-> [k \in DOMAIN payload \cap SensorColumns |-> payload[k]],
     recorded_at |-> IF "timestamp" \in DOMAIN payload THEN payload.timestamp ELSE UtcNow]

\* datetime.fromisoformat raises for the payload's timestamp
TimestampInvalid(payload) ==
    "timestamp" \in DOMAIN payload /\ payload.timestamp \notin IsoTimestamps

\* the insert satisfies the foreign keys of sensor_data
ForeignKeysHold(row) ==
    /\ row.device_id \in Registered
    /\ row.room_id \in Rooms
    /\ row.farm_id \in Farms

\* TelemetryAccepted without the `if not device: return` check and with the
\* insert not checked against the devices table
TelemetryAccepted_NoDeviceCheck(farm_id, room_id, device_id, payload) ==
    /\ ~TimestampInvalid(payload)
    /\ room_id \in Rooms
    /\ farm_id \in Farms

\* the telemetry message is persisted (first commit succeeds)
TelemetryAccepted(farm_id, room_id, device_id, payload) ==
    /\ device_id \in Registered
    /\ ~TimestampInvalid(payload)
    /\ ForeignKeysHold(SensorRow(farm_id, room_id, device_id, payload))

\* the possible outcomes of the publishes of n inline send_command calls
PublishOutcomes(n) ==
    IF connected THEN [1 .. n -> PublishResults] ELSE {[i \in 1 .. n |-> NotConnected]}

\* HandleTelemetry calling _check_automation_rules before the commit, so
\* that rules run for a row the store then rejects
HandleTelemetry_RulesBeforeCommit(farm_id, room_id, device_id, payload) ==
    IF device_id \in Registered /\ ~TimestampInvalid(payload)
      THEN LET row == SensorRow(farm_id, room_id, device_id, payload) IN
           /\ Len(readings) < MaxReadings
           /\ IF ForeignKeysHold(row)
                THEN /\ devices' = [devices EXCEPT ![device_id].last_seen = UtcNow,
                                                   ![device_id].status = "online"]
                     /\ readings' = Append(readings, row)
                     /\ emitted' = <<[event |-> "telemetry_data", farm_id |-> farm_id,
                                      room_id |-> room_id, device_id |-> device_id,
                                      data |-> row]>>
                ELSE /\ emitted' = <<>>
                     /\ UNCHANGED <<devices, readings>>
           /\ \E rcs \in PublishOutcomes(Len(DispatchedRules(room_id, row))) :
                 CheckAutomationRules(commands, room_id, row, rcs)
      ELSE /\ emitted' = <<>>
           /\ UNCHANGED <<commands, devices, outbox, telVars>>

HandleTelemetry(farm_id, room_id, device_id, payload) ==
    IF TelemetryAccepted(farm_id, room_id, device_id, payload)
      THEN LET row == SensorRow(farm_id, room_id, device_id, payload) IN
           /\ Len(readings) < MaxReadings
           /\ devices' = IF device_id \in Registered
                           THEN [devices EXCEPT ![device_id].last_seen = UtcNow,
                                                ![device_id].status = "online"]
                           ELSE devices
           /\ readings' = Append(readings, row)
           /\ emitted' = <<[event |-> "telemetry_data", farm_id |-> farm_id,
                            room_id |-> room_id, device_id |-> device_id, data |-> row]>>
           /\ \E rcs \in PublishOutcomes(Len(DispatchedRules(room_id, row))) :
                 CheckAutomationRules(commands, room_id, row, rcs)
      ELSE /\ emitted' = <<>>
           /\ UNCHANGED <<commands, devices, outbox, telVars>>

\* _on_message: decode the body, then route by the topic's segments
OnMessage(topic, payload) ==
    /\ IF "bad_json" \in DOMAIN payload
         THEN /\ emitted' = <<>>
              /\ UNCHANGED <<commands, devices, outbox, telVars>>
         ELSE IF Len(topic) >= 6
           THEN LET message_type == IF Len(topic) > 6 THEN topic[7] ELSE "unknown" IN
                IF message_type = "telemetry"
                  THEN HandleTelemetry(topic[2], topic[4], topic[6], payload)
                  ELSE IF message_type = "status"
                    THEN /\ HandleStatus(topic[2], topic[4], topic[6], payload)
                         /\ UNCHANGED <<outbox, telVars>>
                    ELSE /\ emitted' = <<>>
                         /\ UNCHANGED <<commands, devices, outbox, telVars>>
           ELSE /\ emitted' = <<>>
                /\ UNCHANGED <<commands, devices, outbox, telVars>>
    /\ inbound' = [topic |-> topic, payload |-> payload]
    /\ UNCHANGED <<connected, reconnect_attempts, pc, call, connVars, simVars>>

\* ------------------------------------------------------- connection loop
reconnect_delay == 5
max_reconnect_delay == 300

RECURSIVE Pow2(_)
Pow2(n) == IF n = 0 THEN 1 ELSE 2 * Pow2(n - 1)

Min(a, b) == IF a <= b THEN a ELSE b

\* BackoffDelay without the max_reconnect_delay cap
BackoffDelay_NoCap(attempts) == reconnect_delay * Pow2(attempts)

\* min(self.reconnect_delay * (2 ** self.reconnect_attempts), self.max_reconnect_delay)
BackoffDelay(attempts) == Min(reconnect_delay * Pow2(attempts), max_reconnect_delay)

\* top of `while True`: client.connect() returns and loop_forever() is entered,
\* or the service is connected and the loop sleeps one second
ConnectLoopCheck ==
    /\ loop_pc = "check"
    /\ IF ~connected
         THEN /\ loop_pc' = "loop_forever"
              /\ disconnecting' = FALSE
         ELSE UNCHANGED <<loop_pc, disconnecting>>
    /\ emitted' = <<>>
    /\ inbound' = NoMsg
    /\ UNCHANGED <<connected, reconnect_attempts, commands, devices, outbox, pc, call,
                   delay, disconnect_called, telVars, simVars, inbox>>

\* client.connect() or loop_forever() raises: the except branch up to time.sleep
ConnectLoopFail ==
    /\ \/ loop_pc = "check" /\ ~connected
       \/ loop_pc = "loop_forever"
    /\ reconnect_attempts < MaxAttempts
    /\ connected' = FALSE
    /\ delay' = BackoffDelay(reconnect_attempts)
    /\ loop_pc' = "sleeping"
    /\ disconnecting' = IF loop_pc = "check" THEN FALSE ELSE disconnecting
    /\ emitted' = <<>>
    /\ inbound' = NoMsg
    /\ UNCHANGED <<reconnect_attempts, commands, devices, outbox, pc, call,
                   disconnect_called, telVars, simVars, inbox>>

\* time.sleep(delay) returns: self.reconnect_attempts += 1
ConnectLoopWake ==
    /\ loop_pc = "sleeping"
    /\ reconnect_attempts' = reconnect_attempts + 1
    /\ loop_pc' = "check"
    /\ emitted' = <<>>
    /\ inbound' = NoMsg
    /\ UNCHANGED <<connected, commands, devices, outbox, pc, call,
                   delay, disconnecting, disconnect_called, telVars, simVars, inbox>>

\* disconnect(): client.disconnect() and connected = False when connected
Disconnect ==
    /\ IF connected
         THEN /\ disconnecting' = TRUE
              /\ connected' = FALSE
         ELSE UNCHANGED <<disconnecting, connected>>
    /\ disconnect_called' = TRUE
    /\ emitted' = <<>>
    /\ inbound' = NoMsg
    /\ UNCHANGED <<reconnect_attempts, commands, devices, outbox, pc, call,
                   loop_pc, delay, telVars, simVars, inbox>>

\* loop_forever() returns after client.disconnect(): _on_disconnect runs with
\* rc = 0 and the `while True` loop goes round again
LoopForeverExit ==
    /\ loop_pc = "loop_forever"
    /\ disconnecting
    /\ connected' = FALSE
    /\ emitted' = <<[event |-> "mqtt_status", connected |-> FALSE]>>
    /\ loop_pc' = "check"
    /\ inbound' = NoMsg
    /\ UNCHANGED <<reconnect_attempts, commands, devices, outbox, pc, call,
                   delay, disconnecting, disconnect_called, telVars, simVars, inbox>>

\* the callbacks run only inside loop_forever()
LoopOnConnect(rc) == loop_pc = "loop_forever" /\ ~disconnecting /\ OnConnect(rc)
LoopOnDisconnect == loop_pc = "loop_forever" /\ OnDisconnect

\* ------------------------------------------------------------------ Next
Next ==
    \/ \E rc \in {0, 5} : OnConnect(rc)
    \/ OnDisconnect
    \/ \E t \in Threads, d \in DeviceIds, cmd \in CommandNames, u \in Issuers :
          SendCommandStart(t, d, cmd, u)
    \/ \E t \in Threads : SendCommandPublish(t)
    \/ \E t \in Threads : SendCommandFinish(t)
    \/ \E t \in Threads : SendCommandReturn(t)
    \/ \E topic \in StatusTopics, payload \in StatusPayloads :
          OnMessage(topic, payload) /\ UNCHANGED inbox

Spec == Init /\ [][Next]_vars

\* send_command, once called, runs to its return; nothing obliges the broker
\* to deliver a message or the connection to change.
FairSpec ==
    /\ Spec
    /\ \A t \in Threads : WF_vars(SendCommandPublish(t))
    /\ \A t \in Threads : WF_vars(SendCommandFinish(t))
    /\ \A t \in Threads : WF_vars(SendCommandReturn(t))

\* the connection thread, the client callbacks and disconnect() alone
NextConn ==
    \/ ConnectLoopCheck
    \/ ConnectLoopFail
    \/ ConnectLoopWake
    \/ Disconnect
    \/ LoopForeverExit
    \/ \E rc \in {0, 5} : LoopOnConnect(rc)
    \/ LoopOnDisconnect

ConnSpec == Init /\ [][NextConn]_vars

TelemetryMessages == AcceptedTelemetry \cup DroppedTelemetry \cup StatusMessages

\* telemetry ingestion and automation while the connection comes and goes
NextTel ==
    \/ \E rc \in {0, 5} : OnConnect(rc)
    \/ OnDisconnect
    \/ \E m \in TelemetryMessages : OnMessage(m.topic, m.payload) /\ UNCHANGED inbox

TelSpec == Init /\ [][NextTel]_vars

\* ---------------------------------------------------- delivery and handling
\* messages of device d1 as the broker may deliver them
OrderMessages ==
    { Msg(Topic("f1", "r1", "d1", "telemetry"), [temperature_c |-> 3000]),
      Msg(Topic("f1", "r1", "d1", "telemetry"), [temperature_c |-> 2700]),
      Msg(Topic("f1", "r1", "d1", "status"),
          [status |-> "acked", command_id |-> 1, ack_status |-> Absent,
           firmware_version |-> Absent]) }

\* the network loop reads a message of a subscribed topic from the socket
BrokerDeliver(m) ==
    /\ connected
    /\ Len(inbox) < MaxInbox
    /\ inbox' = Append(inbox, m)
    /\ emitted' = <<>>
    /\ inbound' = NoMsg
    /\ UNCHANGED <<connected, reconnect_attempts, commands, devices, outbox,
                   pc, call, connVars, telVars, simVars>>

\* LoopOnMessage passing the newest received message to the callback
LoopOnMessage_NewestFirst ==
    /\ inbox # <<>>
    /\ OnMessage(inbox[Len(inbox)].topic, inbox[Len(inbox)].payload)
    /\ inbox' = SubSeq(inbox, 1, Len(inbox) - 1)

\* the network loop calls the on_message callback for the oldest received
\* message and returns to the socket when the callback has returned
LoopOnMessage ==
    /\ inbox # <<>>
    /\ OnMessage(Head(inbox).topic, Head(inbox).payload)
    /\ inbox' = Tail(inbox)

NextOrder ==
    \/ OnConnect(0)
    \/ OnDisconnect
    \/ \E m \in OrderMessages : BrokerDeliver(m)
    \/ LoopOnMessage

OrderSpec == Init /\ [][NextOrder]_vars

\* ------------------------------------------------------------ simulator
\* command messages of other publishers: for another device, for the own
\* device under another room, and for the own device with a command_id the
\* backend has no row for
ForeignCommands ==
    { [topic |-> Topic("f1", "r1", "dX", "command"),
       payload |-> [command_id |-> 1, command |-> "turn_on_fan"]],
      [topic |-> Topic("f1", "r2", "d1", "command"),
       payload |-> [command_id |-> 1, command |-> "turn_on_fan"]],
      [topic |-> Topic("f1", "r1", "d1", "command"),
       payload |-> [command_id |-> MaxCmds + 1, command |-> "turn_off_fan"]] }

\* MQTTSimulator.find_device: farm, room and device must all match
FindDevice(farm_id, room_id, device_id) ==
    /\ device_id \in SimOwned
    /\ farm_id = FarmOf(device_id)
    /\ room_id = RoomOf(device_id)

\* DeviceSimulator.status after handle_command
SimStatusAfter(command, status) ==
    IF command \in TurnOnCommands THEN "active"
    ELSE IF command \in TurnOffCommands THEN "idle"
    ELSE status

\* AckPayload answering with a fresh command_id instead of the received one
AckPayload_FreshId(command_data) ==
    [status |-> "acked", command_id |-> command_data.command_id + 1,
     ack_status |-> Absent, firmware_version |-> Absent]

\* ack_payload of handle_command, by the keys _handle_status reads
AckPayload(command_data) ==
    [status |-> "acked", command_id |-> command_data.command_id,
     ack_status |-> Absent, firmware_version |-> Absent]

\* MQTTSimulator.command_callback with handle_command and publish_message
\* (demo_mode False: the simulator is connected and subscribed)
CommandCallback(message) ==
    /\ IF /\ Len(message.topic) >= 6
          /\ FindDevice(message.topic[2], message.topic[4], message.topic[6])
         THEN LET device_id == message.topic[6] IN
              /\ sim_devices' = [sim_devices EXCEPT ![device_id] =
                     [status |-> SimStatusAfter(message.payload.command, @.status),
                      last_command |-> message.payload]]
              /\ inbox' = Append(inbox,
                     Msg(Topic(FarmOf(device_id), RoomOf(device_id), device_id, "status"),
                         AckPayload(message.payload)))
         ELSE UNCHANGED <<sim_devices, inbox>>
    /\ sim_last' = message
    /\ emitted' = <<>>
    /\ inbound' = NoMsg
    /\ UNCHANGED <<connected, reconnect_attempts, commands, devices, outbox,
                   pc, call, connVars, telVars>>

\* the broker passes the next command the backend published to the simulator
SimReceive ==
    /\ sim_next <= Len(outbox)
    /\ CommandCallback(outbox[sim_next])
    /\ sim_next' = sim_next + 1

\* a command of another publisher reaches the callback
SimReceiveForeign(message) ==
    /\ sim_last # message
    /\ Len(inbox) < MaxInbox
    /\ CommandCallback(message)
    /\ UNCHANGED sim_next

\* backend, broker and simulator with the session staying up
NextSim ==
    \/ OnConnect(0)
    \/ \E t \in Threads, d \in Registered, cmd \in CommandNames, u \in Issuers :
          SendCommandStart(t, d, cmd, u)
    \/ \E t \in Threads : SendCommandPublish(t)
    \/ \E t \in Threads : SendCommandFinish(t)
    \/ \E t \in Threads : SendCommandReturn(t)
    \/ SimReceive
    \/ \E m \in ForeignCommands : SimReceiveForeign(m)
    \/ LoopOnMessage

SimSpec == Init /\ [][NextSim]_vars

\* every thread, the simulator and the network loop keep running, and the
\* broker delivers what was published
SimFairSpec ==
    /\ SimSpec
    /\ \A t \in Threads :
          /\ WF_vars(SendCommandPublish(t))
          /\ WF_vars(SendCommandFinish(t))
          /\ WF_vars(SendCommandReturn(t))
    /\ WF_vars(SimReceive)
    /\ WF_vars(LoopOnMessage)

\* ------------------------------------------------------ shared vocabulary
Terminal == {"acked", "failed"}

AllowedTransitions ==
    {<<"pending", "sent">>, <<"pending", "failed">>,
     <<"sent", "acked">>, <<"sent", "failed">>}

\* the step just taken handled a status message whose payload is p
StatusHandled(p) ==
    \E i \in DOMAIN emitted' :
        /\ emitted'[i].event = "device_status"
        /\ emitted'[i].status = p

\* the step just taken handled a status message carrying command_id c
AckHandled(c) == \E p \in StatusPayloads : p.command_id = c /\ StatusHandled(p)

\* the step just taken emitted a CommandStatus event for c with status s
CommandStatusEmitted(c, s) ==
    \E i \in DOMAIN emitted' :
        /\ emitted'[i].event = "command_status"
        /\ emitted'[i].command_id = c
        /\ emitted'[i].status = s

\* the step just taken emitted some CommandStatus event for c
AnyCommandStatusEmitted(c) ==
    \E i \in DOMAIN emitted' :
        /\ emitted'[i].event = "command_status"
        /\ emitted'[i].command_id = c

\* ------------------------------------------------------------------ C1
\* C1: every change of a command's status follows pending->sent,
\* pending->failed, sent->acked or sent->failed, and a command is created
\* pending, so the values its status takes form a prefix of
\* pending->sent->acked, pending->sent->failed or pending->failed.
C1_LifecycleMonotonic ==
    [][ /\ \A c \in DOMAIN commands :
              commands'[c].status # commands[c].status
                 => <<commands[c].status, commands'[c].status>> \in AllowedTransitions
        /\ \A c \in DOMAIN commands' \ DOMAIN commands :
              commands'[c].status = "pending" ]_vars

\* ------------------------------------------------------------------ C2
\* C2: once a command's status is acked or failed, no step changes it.
C2_TerminalImmutable ==
    [][ \A c \in DOMAIN commands :
            commands[c].status \in Terminal
               => commands'[c].status = commands[c].status ]_vars

\* ------------------------------------------------------------------ C3
\* C3: a status message carrying the ID of a sent command leaves the command
\* acked or failed, never anything else, and emits a CommandStatus event for
\* the new status.
C3_AckOfSentCommand ==
    [][ \A c \in DOMAIN commands :
            (commands[c].status = "sent" /\ AckHandled(c))
               => /\ commands'[c].status \in Terminal
                  /\ CommandStatusEmitted(c, commands'[c].status) ]_vars

\* ------------------------------------------------------------------ C4
\* C4: a sent command that receives no acknowledgment eventually becomes
\* failed, whether or not any further message arrives: from every state in
\* which a command is sent, a state follows in which it is failed or in which
\* a status message carrying its ID has just been handled.
AckReceived(c) ==
    \E i \in DOMAIN emitted :
        /\ emitted[i].event = "device_status"
        /\ emitted[i].status.command_id = c

C4_SentTimesOut ==
    \A c \in CommandIds :
        (c \in DOMAIN commands /\ commands[c].status = "sent")
           ~> ((c \in DOMAIN commands /\ commands[c].status = "failed") \/ AckReceived(c))

\* ------------------------------------------------------------------ C5
\* C5: an acknowledgment transition first checks that the command is still
\* sent: a status message for a command that is not sent is a no-op, so a
\* command enters a terminal state at most once.
C5_AckRequiresSent ==
    [][ \A c \in DOMAIN commands :
            (AckHandled(c) /\ commands[c].status # "sent")
               => /\ commands' = commands
                  /\ ~AnyCommandStatusEmitted(c) ]_vars

\* ------------------------------------------------------------------ C6
\* C6: a second {command_id: X, status: acked} message, arriving when X is
\* already acked, changes no command and emits no CommandStatus event.
AckedPayload(c) ==
    [status |-> "acked", command_id |-> c, ack_status |-> Absent,
     firmware_version |-> Absent]

C6_AckIdempotent ==
    [][ \A c \in DOMAIN commands :
            (commands[c].status = "acked" /\ StatusHandled(AckedPayload(c)))
               => /\ commands' = commands
                  /\ ~AnyCommandStatusEmitted(c) ]_vars

\* ------------------------------------------------------------------ C7
\* C7: send_command for a known device that finds the service not connected
\* publishes nothing, returns failure, and over the whole call only adds one
\* row, created pending and left failed.
C7_DisconnectedFailsImmediately ==
    [][ \A t \in Threads :
          /\ (pc[t] = "idle" /\ pc'[t] = "created")
                => /\ Len(commands') = Len(commands) + 1
                   /\ commands'[call'[t].command_id].status = "pending"
                   /\ outbox' = outbox
          /\ (pc[t] = "created" /\ pc'[t] = "published" /\ ~connected)
                => /\ call'[t].rc = NotConnected
                   /\ outbox' = outbox
                   /\ commands' = commands
          /\ (pc[t] = "published" /\ pc'[t] = "returned" /\ call[t].rc = NotConnected)
                => /\ call'[t].result = FALSE
                   /\ outbox' = outbox
                   /\ Len(commands') = Len(commands)
                   /\ commands'[call[t].command_id].status = "failed"
                   /\ \A c \in DOMAIN commands :
                         c # call[t].command_id => commands'[c] = commands[c] ]_vars

C7_Witness ==
    \E t \in Threads :
        /\ pc[t] = "returned"
        /\ call[t].rc = NotConnected
        /\ call[t].result = FALSE
        /\ commands[call[t].command_id].status = "failed"
        /\ \A i \in DOMAIN outbox : outbox[i].payload.command_id # call[t].command_id

\* ------------------------------------------------------------------ C8
\* C8: for a known device send_command returns success exactly when the
\* publish succeeded, and at the return the new command is sent in that case
\* and failed otherwise, never pending.
C8_ResultFollowsPublish ==
    [][ \A t \in Threads :
          (pc[t] = "published" /\ pc'[t] = "returned")
             => /\ call'[t].result = (call[t].rc = MQTT_ERR_SUCCESS)
                /\ call'[t].result =
                      (\E i \in DOMAIN outbox :
                          outbox[i].payload.command_id = call[t].command_id)
                /\ commands'[call[t].command_id].status =
                      (IF call'[t].result THEN "sent" ELSE "failed") ]_vars

C8_Witness ==
    \E t \in Threads :
        /\ pc[t] = "returned"
        /\ call[t].result = TRUE
        /\ call[t].rc = MQTT_ERR_SUCCESS
        /\ commands[call[t].command_id].status = "sent"

\* ------------------------------------------------------------------ C9
\* C9: send_command for a device ID with no Device row returns failure and
\* leaves the commands table and the broker untouched.
C9_UnknownDeviceNoRecord ==
    [][ \A t \in Threads :
          (pc[t] = "idle" /\ pc'[t] # "idle" /\ call'[t].device_id \notin Registered)
             => /\ pc'[t] = "returned"
                /\ call'[t].result = FALSE
                /\ commands' = commands
                /\ outbox' = outbox ]_vars

C9_Witness ==
    \E t \in Threads :
        /\ pc[t] = "returned"
        /\ call[t].device_id \in DeviceIds \ Registered
        /\ call[t].result = FALSE
        /\ call[t].command_id = NoCommandId

\* ------------------------------------------------------------------ C10
\* C10: every status transition of a command, its creation as pending
\* included, emits a CommandStatus event with the command ID and new status.
C10_EveryTransitionEmits ==
    [][ /\ \A c \in DOMAIN commands :
              commands'[c].status # commands[c].status
                 => CommandStatusEmitted(c, commands'[c].status)
        /\ \A c \in DOMAIN commands' \ DOMAIN commands :
              CommandStatusEmitted(c, commands'[c].status) ]_vars

\* ------------------------------------------------------------------ C11
\* C11: the delay slept after the k-th consecutive failure is the k-th entry
\* of 5, 10, 20, 40, 80, 160, 300, 300, ...: each backoff sleeps the entry
\* for the current attempts, attempts grows by one per failure, and a
\* successful connect puts attempts back to 0.
ExpectedDelays == <<5, 10, 20, 40, 80, 160, 300>>

ExpectedDelay(k) == IF k + 1 <= Len(ExpectedDelays) THEN ExpectedDelays[k + 1] ELSE 300

C11_BackoffSequence ==
    [][ /\ (loop_pc # "sleeping" /\ loop_pc' = "sleeping")
              => /\ delay' = ExpectedDelay(reconnect_attempts)
                 /\ reconnect_attempts' = reconnect_attempts
        /\ (loop_pc = "sleeping" /\ loop_pc' # "sleeping")
              => reconnect_attempts' = reconnect_attempts + 1
        /\ (~connected /\ connected') => reconnect_attempts' = 0
        /\ (loop_pc = "sleeping" <=> loop_pc' = "sleeping")
              => reconnect_attempts' \in {reconnect_attempts, 0} ]_vars

C11_Witness ==
    /\ loop_pc = "sleeping"
    /\ reconnect_attempts = 7
    /\ delay = 300

\* ------------------------------------------------------------------ C12
\* C12: once disconnect() has been called the connection loop makes no
\* further connect attempt and the service stays not connected.
C12_DisconnectCancelsReconnect ==
    [][ disconnect_called
          => /\ ~connected'
             /\ ~(loop_pc = "check" /\ ~connected /\ loop_pc' # "check") ]_vars

\* ------------------------------------------------------------------ C13
\* C13: every change of the connected flag is published in the same step as
\* an mqtt_status event carrying the new value.
C13_ConnectionChangesPublished ==
    [][ connected' # connected
          => \E i \in DOMAIN emitted' :
                /\ emitted'[i].event = "mqtt_status"
                /\ emitted'[i].connected = connected' ]_vars

\* ------------------------------------------------- inbound message claims
\* the message the latest step handled, if it handled one
Handled(m) == m.topic # <<>>
IsTelemetry(m) == Len(m.topic) = 7 /\ m.topic[7] = "telemetry"
IsStatus(m) == Len(m.topic) = 7 /\ m.topic[7] = "status"
Decoded(m) == "bad_json" \notin DOMAIN m.payload

\* farm/{farmID}/room/{roomID}/device/{deviceID}/{kind}, IDs non-empty
WellFormedTopic(t) ==
    /\ Len(t) = 7
    /\ t[1] = "farm" /\ t[3] = "room" /\ t[5] = "device"
    /\ t[2] # "" /\ t[4] # "" /\ t[6] # ""
    /\ t[7] \in {"telemetry", "status"}

\* C14: a message whose topic is not of the shape
\* farm/{farmID}/room/{roomID}/device/{deviceID}/{telemetry|status} with
\* non-empty IDs is dropped: no handler runs (nothing is emitted), no reading
\* is created and no device or command is modified.
C14_MalformedTopicDropped ==
    [][ (Handled(inbound') /\ ~WellFormedTopic(inbound'.topic))
          => /\ emitted' = <<>>
             /\ UNCHANGED <<readings, devices, commands>> ]_vars

\* the kinds of error in handling a message
UnknownDeviceMessage(m) == Len(m.topic) = 7 /\ m.topic[6] \notin Registered
StorageError(m) ==
    /\ IsTelemetry(m) /\ Decoded(m)
    /\ (m.topic[4] \notin Rooms \/ m.topic[2] \notin Farms)
ActionError(m) ==
    /\ IsTelemetry(m) /\ Decoded(m) /\ WellFormedTopic(m.topic)
    /\ m.topic[6] \in Registered
    /\ \E i \in DOMAIN RuleTable :
          /\ ~RuleTable[i].action_object
          /\ RuleFires(RuleTable[i], m.topic[4],
                       SensorRow(m.topic[2], m.topic[4], m.topic[6], m.payload))
HandlingError(m) ==
    \/ ~WellFormedTopic(m.topic)
    \/ ~Decoded(m)
    \/ UnknownDeviceMessage(m)
    \/ StorageError(m)

\* C15: a message whose handling runs into an error (malformed topic, JSON
\* decode failure, unknown device, storage error) is dropped and leaves
\* readings, devices and commands unchanged; a rule whose action fails adds
\* no command for the reading that satisfied it.
C15_ErrorsLeaveStateUnchanged ==
    [][ Handled(inbound')
          => /\ HandlingError(inbound') => UNCHANGED <<readings, devices, commands>>
             /\ (ActionError(inbound') /\ ~StorageError(inbound'))
                   => \A i \in (Len(commands) + 1) .. Len(commands') :
                         commands'[i].command # Absent ]_vars

\* C16: a telemetry message of a device that is not in the registry has no
\* effect: no reading, no device change, no event, no command, no publish and
\* no notification.
C16_UnknownDeviceTelemetryDiscarded ==
    [][ (Handled(inbound') /\ IsTelemetry(inbound') /\ UnknownDeviceMessage(inbound'))
          => /\ emitted' = <<>>
             /\ UNCHANGED <<readings, devices, commands, outbox, notifications>> ]_vars

\* telemetry of the unknown device was handled after a reading, a command and
\* a notification came to exist
C16_Witness ==
    /\ IsTelemetry(inbound) /\ inbound.topic[6] \notin Registered
    /\ readings # <<>> /\ commands # <<>> /\ notifications # <<>>
    /\ devices["d1"].status = "online"

\* C17: a step that creates automation commands (or publishes, or notifies)
\* also records the reading they were evaluated for, with the device set to
\* online and last seen now; without a persisted reading there is no rule
\* evaluation.
C17_ReadingRecordedBeforeRules ==
    [][ (Len(commands') > Len(commands) \/ outbox' # outbox \/ notifications' # notifications)
          => /\ IsTelemetry(inbound')
             /\ readings' = Append(readings,
                    SensorRow(inbound'.topic[2], inbound'.topic[4],
                              inbound'.topic[6], inbound'.payload))
             /\ devices'[inbound'.topic[6]].status = "online"
             /\ devices'[inbound'.topic[6]].last_seen = UtcNow ]_vars

\* a reading of room r2 is recorded and both of the room's rules ran for it
C17_Witness ==
    /\ IsTelemetry(inbound) /\ inbound.topic[4] = "r2"
    /\ Len(readings) = 1 /\ readings[1].room_id = "r2"
    /\ Len(commands) = 2
    /\ devices["d1"].status = "online"

\* C18: messages are handled in the order they were delivered, one at a
\* time, and when the handling of a reading ends every command its rules
\* created has had its publish attempt (it is sent or failed, not pending),
\* before the next message is taken up.
C18_HandledInDeliveryOrder ==
    [][ Handled(inbound')
          => /\ inbox # <<>>
             /\ inbound' = Head(inbox)
             /\ inbox' = Tail(inbox)
             /\ \A i \in (Len(commands) + 1) .. Len(commands') :
                   commands'[i].status \in {"sent", "failed"} ]_vars

\* reading N was handled with its command dispatched while reading N+1 of the
\* same device was already waiting
C18_Witness ==
    /\ IsTelemetry(inbound) /\ Len(readings) = 1 /\ Len(commands) = 1
    /\ commands[1].status = "sent"
    /\ inbox # <<>> /\ IsTelemetry(Head(inbox))
    /\ Head(inbox) # inbound

\* commands created by automation rules
AutomationCommands == { i \in DOMAIN commands : commands[i].issued_by = Absent }

\* the (reading, rule) pairs in which an enabled rule of the reading's room is
\* satisfied by the reading
SatisfiedPairs ==
    { pair \in (DOMAIN readings) \X (DOMAIN RuleTable) :
        RuleFires(RuleTable[pair[2]], readings[pair[1]].room_id, readings[pair[1]]) }

\* C19 as stated: all action devices being registered, there are as many
\* automation commands as (reading, enabled rule of the room) pairs with the
\* rule satisfied.
C19_OncePerSatisfiedRule ==
    (\A j \in DOMAIN RuleTable : RuleTable[j].action_device \in Registered)
        => Cardinality(AutomationCommands) = Cardinality(SatisfiedPairs)

\* where every satisfied rule's action names a command, the count does hold:
\* each such rule triggers once per reading, again on every qualifying reading
SatisfiedRulesWithCommandTriggerOnce ==
    Cardinality(AutomationCommands) =
        Cardinality({ pair \in SatisfiedPairs : RuleTable[pair[2]].action_object })

\* scenario A: {temperature_c: 30} for room r1, whose one rule is
\* temperature > 28 -> fan on at the registered device d1
ScenarioA == Msg(Topic("f1", "r1", "d1", "telemetry"), [temperature_c |-> 3000])

\* C20: every command a telemetry step creates has no issuer and carries the
\* action device and command of an enabled rule of the message's room; the
\* step that ingests scenario A creates exactly one command, fan on for d1.
C20_AutomationCommandFields ==
    [][ /\ \A i \in (Len(commands) + 1) .. Len(commands') :
              /\ commands'[i].issued_by = Absent
              /\ \E j \in DOMAIN RuleTable :
                    /\ RuleTable[j].enabled
                    /\ RuleTable[j].room_id = inbound'.topic[4]
                    /\ commands'[i].device_id = RuleTable[j].action_device
                    /\ commands'[i].command = RuleTable[j].command
        /\ (inbound' = ScenarioA /\ readings' # readings)
              => /\ Len(commands') = Len(commands) + 1
                 /\ commands'[Len(commands')].command = "fan on"
                 /\ commands'[Len(commands')].device_id = "d1"
                 /\ commands'[Len(commands')].issued_by = Absent ]_vars

\* scenario A was ingested from the initial state: one command exists
C20_Witness ==
    /\ inbound = ScenarioA
    /\ Len(readings) = 1
    /\ Len(commands) = 1
    /\ commands[1].command = "fan on" /\ commands[1].device_id = "d1"
    /\ commands[1].issued_by = Absent

\* ------------------------------------------------------ rule claims
\* the step recorded a reading
ReadingRecorded == Len(readings') = Len(readings) + 1
\* the reading the step recorded
NewReading == readings'[Len(readings')]
\* the commands the step created
NewCommands == (Len(commands) + 1) .. Len(commands')
\* the commands the step created for the rule
TriggersOf(rule) ==
    { i \in NewCommands : /\ commands'[i].command = rule.command
                          /\ commands'[i].device_id = rule.action_device
                          /\ commands'[i].issued_by = Absent }

\* C21: for an enabled rule with comparator '>' and threshold T, a reading of
\* the rule's room with the parameter's value above T creates exactly one
\* command for the rule, and a reading with the value below T creates none.
C21_GreaterThanTriggersOnce ==
    [][ \A j \in DOMAIN RuleTable :
          LET rule == RuleTable[j]
              col == ColumnOf(rule.parameter)
          IN  ( /\ rule.enabled /\ rule.comparator = ">"
                /\ ReadingRecorded
                /\ NewReading.room_id = rule.room_id
                /\ col \in DOMAIN NewReading.values )
              => /\ NewReading.values[col] > rule.threshold
                    => Cardinality(TriggersOf(rule)) = 1
                 /\ NewReading.values[col] < rule.threshold
                    => Cardinality(TriggersOf(rule)) = 0 ]_vars

\* in room r1 a reading of 30 created the rule's command and a following
\* reading of 27 created none
C21_Witness ==
    /\ Len(readings) = 2
    /\ readings[1].room_id = "r1" /\ readings[1].values = [temperature_c |-> 3000]
    /\ readings[2].room_id = "r1" /\ readings[2].values = [temperature_c |-> 2700]
    /\ Len(commands) = 1

\* C22: a command is created only for an enabled rule of the reading's room
\* whose parameter the reading carries; disabled rules, rules of other rooms
\* and rules whose field is absent create no command and no event, and the
\* other rules of the room are still evaluated: the step creates one command
\* per rule of the room that is enabled, has its field and is satisfied.
C22_SkippedRulesHaveNoEffect ==
    [][ ReadingRecorded
          => /\ \A i \in NewCommands :
                   \E j \in DOMAIN RuleTable :
                      /\ RuleTable[j].enabled
                      /\ RuleTable[j].room_id = NewReading.room_id
                      /\ ColumnOf(RuleTable[j].parameter) \in DOMAIN NewReading.values
                      /\ i \in TriggersOf(RuleTable[j])
             /\ Cardinality(NewCommands) =
                   Cardinality({ j \in DOMAIN RuleTable :
                      /\ RuleTable[j].enabled
                      /\ RuleTable[j].room_id = NewReading.room_id
                      /\ RuleTable[j].action_object
                      /\ ColumnOf(RuleTable[j].parameter) \in DOMAIN NewReading.values
                      /\ ConditionMet(RuleTable[j].comparator,
                            NewReading.values[ColumnOf(RuleTable[j].parameter)],
                            RuleTable[j].threshold) })
             /\ Len(emitted') = 1 /\ emitted'[1].event = "telemetry_data" ]_vars

\* a reading of room r2 without a temperature: the temperature rules were
\* skipped, the disabled rule did not run, the humidity rule after them fired
C22_Witness ==
    /\ IsTelemetry(inbound) /\ inbound.payload = [humidity_pct |-> 7000]
    /\ Len(readings) = 1 /\ readings[1].values = [humidity_pct |-> 7000]
    /\ Len(commands) = 1 /\ commands[1].command = "humidifier on"

\* C23: whenever a reading satisfies a rule, an AutomationTriggered event is
\* emitted and a command for the rule's action device is created, whether or
\* not the publish succeeds.
C23_AutomationTriggeredEmitted ==
    [][ ( /\ ReadingRecorded
          /\ \E j \in DOMAIN RuleTable :
                /\ RuleTable[j].action_object
                /\ RuleFires(RuleTable[j], NewReading.room_id, NewReading) )
          => /\ NewCommands # {}
             /\ \E k \in DOMAIN emitted' : emitted'[k].event = "automation_triggered" ]_vars

\* ---------------------------------------------------- status claims
\* C24: a status message whose command_id matches no command changes no
\* command and emits no CommandStatus event.
C24_UnknownCommandIdIgnored ==
    [][ ( /\ Handled(inbound') /\ IsStatus(inbound')
          /\ inbound'.payload.command_id # NoCommandId
          /\ inbound'.payload.command_id \notin DOMAIN commands )
          => /\ UNCHANGED commands
             /\ \A k \in DOMAIN emitted' : emitted'[k].event # "command_status" ]_vars

\* a status message naming command 2 was handled while command 1 is the only
\* command and stays sent
C24_Witness ==
    /\ IsStatus(inbound) /\ inbound.payload.command_id = 2
    /\ Len(commands) = 1 /\ commands[1].status = "sent"
    /\ Len(emitted) = 1 /\ emitted[1].event = "device_status"

DeviceStatuses == {"online", "offline", "active", "idle"}

\* C25: every device's status is online, offline, active or idle in every
\* reachable state.
C25_DeviceStatusDomain ==
    \A d \in Registered : devices[d].status \in DeviceStatuses

\* C27: when the acknowledgment of command X was handled after send_command's
\* publish and before its write of the outcome, X is still acknowledged
\* (acked, or failed as the device declared) after send_command has written.
C27_AckSurvivesSentWrite ==
    [][ \A t \in Threads :
          ( /\ pc[t] = "published" /\ pc'[t] = "returned"
            /\ call[t].rc = MQTT_ERR_SUCCESS
            /\ commands[call[t].command_id].status \in Terminal )
          => commands'[call[t].command_id].status
                = commands[call[t].command_id].status ]_vars

\* C28: a status message changes a command only if the device in the
\* message's topic is registered and is the device the command was issued to.
C28_AckOnlyFromOwningDevice ==
    [][ (Handled(inbound') /\ IsStatus(inbound'))
          => \A c \in DOMAIN commands :
                commands'[c] # commands[c]
                  => /\ inbound'.topic[6] \in Registered
                     /\ inbound'.topic[6] = commands[c].device_id ]_vars

\* C29: every reading carries the room and the farm its device is registered
\* in, so only the rules of that room are evaluated for it.
C29_ReadingInDeviceRoom ==
    \A i \in DOMAIN readings :
        /\ readings[i].room_id = RoomOf(readings[i].device_id)
        /\ readings[i].farm_id = FarmOf(readings[i].device_id)

\* ------------------------------------------------------ simulator claim
\* the step just taken was a call of the simulator's command_callback
CallbackRan == sim_next' # sim_next \/ sim_last' # sim_last

\* the message is on the command topic of a device the simulator owns
OnOwnCommandTopic(m) ==
    \E d \in SimOwned : m.topic = Topic(FarmOf(d), RoomOf(d), d, "command")

\* every command the simulator receives for one of its devices is answered by
\* exactly one acknowledgment on that device's status topic, with the
\* received command_id and status 'acked'; any other command by nothing
SimulatorAnswers ==
    [][ CallbackRan
          => IF OnOwnCommandTopic(sim_last')
               THEN /\ Len(inbox') = Len(inbox) + 1
                    /\ SubSeq(inbox', 1, Len(inbox)) = inbox
                    /\ inbox'[Len(inbox')].topic =
                          [sim_last'.topic EXCEPT ![7] = "status"]
                    /\ inbox'[Len(inbox')].payload.command_id =
                          sim_last'.payload.command_id
                    /\ inbox'[Len(inbox')].payload.status = "acked"
               ELSE inbox' = inbox ]_vars

\* the simulator acknowledged command 1 and the backend has handled the
\* acknowledgment
SimulatorAnswers_Witness ==
    /\ sim_next = 2 /\ sim_devices["d1"].status = "active"
    /\ IsStatus(inbound) /\ inbound.payload.command_id = 1
    /\ commands[1].status = "acked"

\* C30: the simulator answers every command for one of its devices with one
\* acknowledgment on the device's status topic (and other commands with
\* nothing), hence every command of the backend that is sent is eventually
\* acked.
C30_SentEventuallyAcked ==
    /\ SimulatorAnswers
    /\ \A c \in 1 .. MaxCmds :
          (c \in DOMAIN commands /\ commands[c].status = "sent")
             ~> (c \in DOMAIN commands /\ commands[c].status = "acked")

====
